---- MODULE Spec2Model ----
(***************************************************************************)
(* A model of the Flask blog application in src/app.py: the User, BlogPost *)
(* and Comment tables, the Flask-Login session of each browser, and one    *)
(* action per route handler.  Every action leaves the response it produced *)
(* in `resp`.                                                              *)
(***************************************************************************)
EXTENDS Integers, Sequences, FiniteSets, TLC

\* ---------------------------------------------------------------- bounds
MaxUsers == 2
MaxPosts == 2
MaxComments == 1

\* ---------------------------------------------------------------- inputs
Clients == {"c1", "c2"}
\* the browser whose requests are served one after another
Browsers == {"c1"}
\* one address per user the tables may hold
Emails == {"u" \o ToString(i) \o "@x.io" : i \in 1..MaxUsers}
Passwords == {"pw1", "pw2"}
Names == {"Ann"}
Salts == {"s1"}
Texts == {"hi"}
\* the post ids a URL may name
PostIds == 1..MaxPosts
\* a request is a GET, a POST the form rejects, or a POST the form accepts
Kinds == {"GET", "POST_INVALID", "POST_VALID"}
\* the fields of CreatePostForm, as two submissions that differ in every field
Forms == { [title |-> "T1", subtitle |-> "S1", img_url |-> "http://i/1", body |-> "B1"],
           [title |-> "T2", subtitle |-> "S2", img_url |-> "http://i/2", body |-> "B2"] }
NoForm == [title |-> "", subtitle |-> "", img_url |-> "", body |-> ""]
\* a GET or a rejected POST carries no usable form data
FormsOf(kind) == IF kind = "POST_VALID" THEN Forms ELSE {NoForm}
\* the days date.today() may return
Days == { [y |-> 2024, m |-> 1, d |-> 9] }
\* where send_email may raise: nowhere ("ok") or in one of its calls
SmtpOutcomes == {"ok", "connect", "starttls", "login", "sendmail", "quit"}
\* the storage engines the DB connection string may name
Engines == {"sqlite", "postgresql"}

\* ---------------------------------------------------------------- state
VARIABLES users, posts, comments, seq, session, resp, engine, pending
vars == <<users, posts, comments, seq, session, resp, engine, pending>>

NoUserId == ""
NullFk == 0
NoEmail == ""
NoPending == [email |-> NoEmail, name |-> "", password |-> ""]

\* ---------------------------------------------------------------- helpers
Max(S) == IF S = {} THEN 0 ELSE CHOOSE m \in S : \A x \in S : x <= m

Ids(table) == {r.id : r \in table}

\* the primary key the engine gives a new row: SQLite's rowid is one more than
\* the largest stored one, PostgreSQL draws from a sequence that never goes back
NewId(table, last) == IF engine = "sqlite" THEN Max(Ids(table)) + 1 ELSE last + 1

\* seq holds, per table, the largest key given so far (under PostgreSQL, the
\* value of the table's sequence)
NextSeq(name, id) == [seq EXCEPT ![name] = IF id > seq[name] THEN id ELSE seq[name]]

\* werkzeug.security: a salted digest, and its verification
generate_password_hash(password, salt) ==
    [method |-> "pbkdf2:sha256", salt |-> salt, digest |-> <<"pbkdf2:sha256", salt, password>>]

check_password_hash(pwhash, password) ==
    pwhash.digest = <<pwhash.method, pwhash.salt, password>>

\* UserMixin.get_id
get_id(user) == ToString(user.id)

load_user(user_id) == CHOOSE u \in users : get_id(u) = user_id

AnonymousUserMixin == [is_authenticated |-> FALSE]

current_user(c) ==
    IF session[c] = NoUserId
    THEN AnonymousUserMixin
    ELSE [is_authenticated |-> TRUE] @@ load_user(session[c])

\* db.select(User).where(User.email == email) ... result.scalar()
UsersByEmail(email) == {u \in users : u.email = email}

validate_on_submit(kind) == kind = "POST_VALID"

Pad2(n) == IF n < 10 THEN "0" \o ToString(n) ELSE ToString(n)

MonthName ==
    <<"January", "February", "March", "April", "May", "June", "July",
      "August", "September", "October", "November", "December">>

\* date.strftime("%B %d, %Y")
strftime(day) == MonthName[day.m] \o " " \o Pad2(day.d) \o ", " \o ToString(day.y)

Flash(category, message) == [category |-> category, message |-> message]

\* what a request answers: the status, the template rendered or the endpoint
\* redirected to, the messages it flashed, the posts a listing shows and the
\* number of sendmail calls it made
Response(route, status, target, flashes, listing, sendmail_calls) ==
    [route |-> route, status |-> status, target |-> target, flashes |-> flashes,
     listing |-> listing, sendmail_calls |-> sendmail_calls]

render_template(route, template) == Response(route, 200, template, <<>>, {}, 0)

redirect(route, endpoint, flashes) == Response(route, 302, endpoint, flashes, {}, 0)

abort(route, status) == Response(route, status, "", <<>>, {}, 0)

Init ==
    /\ users = {}
    /\ posts = {}
    /\ comments = {}
    /\ seq = [user |-> 0, post |-> 0, comment |-> 0]
    /\ session = [c \in Clients |-> NoUserId]
    /\ resp = abort("", 0)
    /\ engine \in Engines
    /\ pending = [c \in Clients |-> NoPending]

\* ---------------------------------------------------------------- routes
\* the unique constraint on User.email: an insert of a second row with a
\* stored email is refused
UniqueViolation(email) == UsersByEmail(email) # {}

\* the user row that lines 89-98 build
NewUser(name, email, password, salt) ==
    [id |-> NewId(users, seq.user), email |-> email, name |-> name,
     password |-> generate_password_hash(password, salt)]

\* seq after an insert the engine refused: a PostgreSQL sequence has moved on
SeqAfterRefusal(name, id) == IF engine = "postgresql" THEN NextSeq(name, id) ELSE seq

\* register without the login_user call of line 102
commit_without_login(c, name, email, password, salt) ==
    LET new_user == NewUser(name, email, password, salt)
    IN /\ UNCHANGED session
       /\ IF UniqueViolation(email)
          THEN /\ resp' = abort("register", 500)
               /\ seq' = SeqAfterRefusal("user", new_user.id)
               /\ UNCHANGED users
          ELSE /\ Cardinality(users) < MaxUsers
               /\ users' = users \cup {new_user}
               /\ seq' = NextSeq("user", new_user.id)
               /\ resp' = redirect("register", "get_all_posts", <<>>)

\* register with login_user called before the commit rather than after it
commit_after_login(c, name, email, password, salt) ==
    LET new_user == NewUser(name, email, password, salt)
    IN /\ session' = [session EXCEPT ![c] = get_id(new_user)]
       /\ IF UniqueViolation(email)
          THEN /\ resp' = abort("register", 500)
               /\ seq' = SeqAfterRefusal("user", new_user.id)
               /\ UNCHANGED users
          ELSE /\ Cardinality(users) < MaxUsers
               /\ users' = users \cup {new_user}
               /\ seq' = NextSeq("user", new_user.id)
               /\ resp' = redirect("register", "get_all_posts", <<>>)

\* register, lines 89-103: hash the password, insert the user and commit, log
\* the new user in.  A commit the engine refuses raises IntegrityError, which
\* Flask answers with 500
commit_new_user(c, name, email, password, salt) ==
    LET new_user == NewUser(name, email, password, salt)
    IN IF UniqueViolation(email)
       THEN /\ resp' = abort("register", 500)
            /\ seq' = SeqAfterRefusal("user", new_user.id)
            /\ UNCHANGED <<users, session>>
       ELSE /\ Cardinality(users) < MaxUsers
            /\ users' = users \cup {new_user}
            /\ seq' = NextSeq("user", new_user.id)
            /\ session' = [session EXCEPT ![c] = get_id(new_user)]
            /\ resp' = redirect("register", "get_all_posts", <<>>)

AlreadySignedUp ==
    redirect("register", "login",
             <<Flash("message", "You've already signed up with that email, log in instead!")>>)

\* register without the existence lookup of lines 81-87
register_no_lookup(c, kind, name, email, password, salt) ==
    /\ UNCHANGED <<posts, comments, engine, pending>>
    /\ IF ~validate_on_submit(kind)
       THEN /\ resp' = render_template("register", "register.html")
            /\ UNCHANGED <<users, seq, session>>
       ELSE commit_new_user(c, name, email, password, salt)

\* /register, as one request that nothing interleaves with
register(c, kind, name, email, password, salt) ==
    /\ UNCHANGED <<posts, comments, engine, pending>>
    /\ IF ~validate_on_submit(kind)
       THEN /\ resp' = render_template("register", "register.html")
            /\ UNCHANGED <<users, seq, session>>
       ELSE IF UsersByEmail(email) # {}
       THEN /\ resp' = AlreadySignedUp
            /\ UNCHANGED <<users, seq, session>>
       ELSE commit_new_user(c, name, email, password, salt)

\* login without the password check of lines 119-121
login_no_check(c, kind, email, password) ==
    /\ UNCHANGED <<users, posts, comments, seq, engine, pending>>
    /\ IF ~validate_on_submit(kind)
       THEN /\ resp' = render_template("login", "login.html")
            /\ UNCHANGED session
       ELSE IF UsersByEmail(email) = {}
       THEN /\ resp' = redirect("login", "login",
                          <<Flash("message", "That email does not exist, please try again.")>>)
            /\ UNCHANGED session
       ELSE LET user == CHOOSE u \in UsersByEmail(email) : TRUE
            IN /\ session' = [session EXCEPT ![c] = get_id(user)]
               /\ resp' = redirect("login", "get_all_posts", <<>>)

\* /login
login(c, kind, email, password) ==
    /\ UNCHANGED <<users, posts, comments, seq, engine, pending>>
    /\ IF ~validate_on_submit(kind)
       THEN /\ resp' = render_template("login", "login.html")
            /\ UNCHANGED session
       ELSE IF UsersByEmail(email) = {}
       THEN /\ resp' = redirect("login", "login",
                          <<Flash("message", "That email does not exist, please try again.")>>)
            /\ UNCHANGED session
       ELSE LET user == CHOOSE u \in UsersByEmail(email) : TRUE
            IN IF ~check_password_hash(user.password, password)
               THEN /\ resp' = redirect("login", "login",
                                  <<Flash("message", "Password incorrect, please try again.")>>)
                    /\ UNCHANGED session
               ELSE /\ session' = [session EXCEPT ![c] = get_id(user)]
                    /\ resp' = redirect("login", "get_all_posts", <<>>)

logout(c) ==
    /\ session' = [session EXCEPT ![c] = NoUserId]
    /\ resp' = redirect("logout", "get_all_posts", <<>>)
    /\ UNCHANGED <<users, posts, comments, seq, engine, pending>>

get_all_posts(c) ==
    /\ resp' = Response("get_all_posts", 200, "index.html", <<>>, Ids(posts), 0)
    /\ UNCHANGED <<users, posts, comments, seq, session, engine, pending>>

about(c) ==
    /\ resp' = render_template("about", "about.html")
    /\ UNCHANGED <<users, posts, comments, seq, session, engine, pending>>

\* db.get_or_404(BlogPost, post_id): the rows with that primary key
PostsById(post_id) == {p \in posts : p.id = post_id}

\* /post/<post_id>
show_post(c, kind, post_id, text) ==
    /\ UNCHANGED <<users, posts, session, engine, pending>>
    /\ IF PostsById(post_id) = {}
       THEN /\ resp' = abort("show_post", 404)
            /\ UNCHANGED <<comments, seq>>
       ELSE IF ~validate_on_submit(kind)
       THEN /\ resp' = render_template("show_post", "post.html")
            /\ UNCHANGED <<comments, seq>>
       ELSE IF ~current_user(c).is_authenticated
       THEN /\ resp' = redirect("show_post", "login",
                          <<Flash("message", "You need to login or register to comment.")>>)
            /\ UNCHANGED <<comments, seq>>
       ELSE /\ Cardinality(comments) < MaxComments
            /\ LET new_comment == [id |-> NewId(comments, seq.comment), text |-> text,
                                   author_id |-> current_user(c).id, post_id |-> post_id]
               IN /\ comments' = comments \cup {new_comment}
                  /\ seq' = NextSeq("comment", new_comment.id)
            /\ resp' = render_template("show_post", "post.html")

\* the admin_only decorator: the response it answers with itself, or "pass"
\* when it calls the wrapped route.  An anonymous current_user is an
\* AnonymousUserMixin, which has no attribute id: reading it raises
\* AttributeError, which Flask answers with 500
admin_only(c) ==
    IF "id" \notin DOMAIN current_user(c) THEN 500
    ELSE IF current_user(c).id # 1 THEN 403
    ELSE 0

\* /new-post
add_new_post(c, kind, form, today) ==
    /\ UNCHANGED <<users, comments, session, engine, pending>>
    /\ IF admin_only(c) # 0
       THEN /\ resp' = abort("add_new_post", admin_only(c))
            /\ UNCHANGED <<posts, seq>>
       ELSE IF ~validate_on_submit(kind)
       THEN /\ resp' = render_template("add_new_post", "make-post.html")
            /\ UNCHANGED <<posts, seq>>
       ELSE /\ Cardinality(posts) < MaxPosts
            /\ NewId(posts, seq.post) \in PostIds
            /\ LET new_post == [id |-> NewId(posts, seq.post), title |-> form.title,
                                subtitle |-> form.subtitle, body |-> form.body,
                                img_url |-> form.img_url, author_id |-> current_user(c).id,
                                date |-> strftime(today)]
               IN /\ posts' = posts \cup {new_post}
                  /\ seq' = NextSeq("post", new_post.id)
            /\ resp' = redirect("add_new_post", "get_all_posts", <<>>)

\* url_for("show_post", post_id=post.id)
PostUrl(post_id) == "show_post/" \o ToString(post_id)

\* edit_post behind the admin_only decorator, as the comment on line 185 has it
edit_post_admin_only(c, kind, post_id, form) ==
    /\ UNCHANGED <<users, comments, seq, session, engine, pending>>
    /\ IF admin_only(c) # 0
       THEN /\ resp' = abort("edit_post", admin_only(c))
            /\ UNCHANGED posts
       ELSE IF PostsById(post_id) = {}
       THEN /\ resp' = abort("edit_post", 404)
            /\ UNCHANGED posts
       ELSE IF ~validate_on_submit(kind)
       THEN /\ resp' = render_template("edit_post", "make-post.html")
            /\ UNCHANGED posts
       ELSE /\ LET post == CHOOSE p \in PostsById(post_id) : TRUE
                   edited == [post EXCEPT !.title = form.title, !.subtitle = form.subtitle,
                                          !.img_url = form.img_url,
                                          !.author_id = current_user(c).id,
                                          !.body = form.body]
               IN posts' = (posts \ {post}) \cup {edited}
            /\ resp' = redirect("edit_post", PostUrl(post_id), <<>>)

\* /edit-post/<post_id>.  post.author is a relationship to User: assigning the
\* AnonymousUserMixin of an anonymous caller to it raises before the commit
edit_post(c, kind, post_id, form) ==
    /\ UNCHANGED <<users, comments, seq, session, engine, pending>>
    /\ IF PostsById(post_id) = {}
       THEN /\ resp' = abort("edit_post", 404)
            /\ UNCHANGED posts
       ELSE IF ~validate_on_submit(kind)
       THEN /\ resp' = render_template("edit_post", "make-post.html")
            /\ UNCHANGED posts
       ELSE IF "id" \notin DOMAIN current_user(c)
       THEN /\ resp' = abort("edit_post", 500)
            /\ UNCHANGED posts
       ELSE /\ LET post == CHOOSE p \in PostsById(post_id) : TRUE
                   edited == [post EXCEPT !.title = form.title, !.subtitle = form.subtitle,
                                          !.img_url = form.img_url,
                                          !.author_id = current_user(c).id,
                                          !.body = form.body]
               IN posts' = (posts \ {post}) \cup {edited}
            /\ resp' = redirect("edit_post", PostUrl(post_id), <<>>)

\* what becomes of the comments when a post is deleted: the relationship
\* between a post and its comments declares no delete cascade, so the unit of
\* work detaches them (post_id NULL) and keeps them
detach_comments(post_id) ==
    {IF k.post_id = post_id THEN [k EXCEPT !.post_id = NullFk] ELSE k : k \in comments}

\* delete_post whose delete never reaches the database
delete_post_not_committed(c, post_id) ==
    /\ UNCHANGED <<users, seq, session, engine, pending, posts, comments>>
    /\ IF admin_only(c) # 0
       THEN resp' = abort("delete_post", admin_only(c))
       ELSE IF PostsById(post_id) = {}
       THEN resp' = abort("delete_post", 404)
       ELSE resp' = redirect("delete_post", "get_all_posts", <<>>)

\* /delete/<post_id>
delete_post(c, post_id) ==
    /\ UNCHANGED <<users, seq, session, engine, pending>>
    /\ IF admin_only(c) # 0
       THEN /\ resp' = abort("delete_post", admin_only(c))
            /\ UNCHANGED <<posts, comments>>
       ELSE IF PostsById(post_id) = {}
       THEN /\ resp' = abort("delete_post", 404)
            /\ UNCHANGED <<posts, comments>>
       ELSE /\ posts' = posts \ PostsById(post_id)
            /\ comments' = detach_comments(post_id)
            /\ resp' = redirect("delete_post", "get_all_posts", <<>>)

\* send_email: whether it raised, and how many times it called sendmail
send_email(outcome) ==
    [raised |-> outcome # "ok",
     sendmail_calls |-> IF outcome \in {"ok", "sendmail", "quit"} THEN 1 ELSE 0]

\* contact without the try/except of lines 233-237
contact_no_except(c, kind, outcome) ==
    /\ UNCHANGED <<users, posts, comments, seq, session, engine, pending>>
    /\ IF ~validate_on_submit(kind)
       THEN resp' = render_template("contact", "contact.html")
       ELSE LET sent == send_email(outcome)
            IN IF sent.raised
               THEN resp' = Response("contact", 500, "", <<>>, {}, sent.sendmail_calls)
               ELSE resp' = Response("contact", 302, "contact",
                              <<Flash("success", "Your message has been sent successfully!")>>,
                              {}, sent.sendmail_calls)

\* /contact
contact(c, kind, outcome) ==
    /\ UNCHANGED <<users, posts, comments, seq, session, engine, pending>>
    /\ IF ~validate_on_submit(kind)
       THEN resp' = render_template("contact", "contact.html")
       ELSE LET sent == send_email(outcome)
            IN resp' = Response("contact", 302, "contact",
                         IF sent.raised
                         THEN <<Flash("danger", "An unexpected error occurred. Please try again later")>>
                         ELSE <<Flash("success", "Your message has been sent successfully!")>>,
                         {}, sent.sendmail_calls)

\* the submitted fields, which only an accepted POST carries
EmailsOf(kind) == IF kind = "POST_VALID" THEN Emails ELSE {NoEmail}
PasswordsOf(kind) == IF kind = "POST_VALID" THEN Passwords ELSE {""}
NamesOf(kind) == IF kind = "POST_VALID" THEN Names ELSE {""}
TextsOf(kind) == IF kind = "POST_VALID" THEN Texts ELSE {""}
OutcomesOf(kind) == IF kind = "POST_VALID" THEN SmtpOutcomes ELSE {"ok"}

Next ==
    \/ \E c \in Browsers, kind \in Kinds :
         \E name \in NamesOf(kind), email \in EmailsOf(kind),
            password \in PasswordsOf(kind), salt \in Salts :
              register(c, kind, name, email, password, salt)
    \/ \E c \in Browsers, kind \in Kinds :
         \E email \in EmailsOf(kind), password \in PasswordsOf(kind) :
              login(c, kind, email, password)
    \/ \E c \in Browsers : logout(c)
    \/ \E c \in Browsers : get_all_posts(c)
    \/ \E c \in Browsers : about(c)
    \/ \E c \in Browsers, kind \in Kinds, post_id \in PostIds :
         \E text \in TextsOf(kind) : show_post(c, kind, post_id, text)
    \/ \E c \in Browsers, kind \in Kinds, today \in Days :
         \E form \in FormsOf(kind) : add_new_post(c, kind, form, today)
    \/ \E c \in Browsers, kind \in Kinds, post_id \in PostIds :
         \E form \in FormsOf(kind) : edit_post(c, kind, post_id, form)
    \/ \E c \in Browsers, post_id \in PostIds : delete_post(c, post_id)
    \/ \E c \in Browsers, kind \in Kinds :
         \E outcome \in OutcomesOf(kind) : contact(c, kind, outcome)

Spec == Init /\ [][Next]_vars

\* ---------------------------------------------------------------- concurrent registrations
\* /register up to the existence lookup (lines 78-87): the request of browser c
\* either answers at once or goes on to the insert with its form data
register_lookup(c, kind, name, email, password) ==
    /\ pending[c] = NoPending
    /\ UNCHANGED <<users, posts, comments, seq, session, engine>>
    /\ IF ~validate_on_submit(kind)
       THEN /\ resp' = render_template("register", "register.html")
            /\ UNCHANGED pending
       ELSE IF UsersByEmail(email) # {}
       THEN /\ resp' = AlreadySignedUp
            /\ UNCHANGED pending
       ELSE /\ pending' = [pending EXCEPT ![c] = [email |-> email, name |-> name,
                                                  password |-> password]]
            /\ UNCHANGED resp

\* /register from the hashing on (lines 89-103)
register_commit(c, salt) ==
    /\ pending[c] # NoPending
    /\ commit_new_user(c, pending[c].name, pending[c].email, pending[c].password, salt)
    /\ pending' = [pending EXCEPT ![c] = NoPending]
    /\ UNCHANGED <<posts, comments, engine>>

NextConc ==
    \/ \E c \in Clients, kind \in Kinds :
         \E name \in NamesOf(kind), email \in EmailsOf(kind), password \in PasswordsOf(kind) :
              register_lookup(c, kind, name, email, password)
    \/ \E c \in Clients, salt \in Salts : register_commit(c, salt)
    \/ \E c \in Clients, kind \in Kinds :
         \E email \in EmailsOf(kind), password \in PasswordsOf(kind) :
              login(c, kind, email, password)
    \/ \E c \in Clients : logout(c)

SpecConc == Init /\ [][NextConc]_vars

\* ---------------------------------------------------------------- properties
IsAuthenticated(c) == current_user(c).is_authenticated

\* the session identity of browser c has id exactly 1
IsAdmin(c) == "id" \in DOMAIN current_user(c) /\ current_user(c).id = 1

\* a request to one of the two routes that admin_only wraps
AdminRouteRequest(c) ==
    \/ \E kind \in Kinds, today \in Days : \E form \in FormsOf(kind) :
         add_new_post(c, kind, form, today)
    \/ \E post_id \in PostIds : delete_post(c, post_id)

\* C1: on /new-post and /delete/<id>, a request whose session identity is not
\* the user with id 1, an anonymous caller included, is answered with 403 and
\* leaves the BlogPost table unchanged; only the user with id 1 gets past.
C1_AdminOnly ==
    [][\A c \in Clients :
         AdminRouteRequest(c) /\ ~IsAdmin(c) => resp'.status = 403 /\ posts' = posts]_vars

\* no two stored users share an email
EmailsUnique == \A u1, u2 \in users : u1.email = u2.email => u1 = u2

\* C2: a valid registration whose email is already stored leaves the User table
\* and the session unchanged, flashes the warning and redirects to login; and
\* no two users ever share an email.
C2_DuplicateRegistration ==
    /\ []EmailsUnique
    /\ [][resp'.route = "register" =>
          \A c \in Clients, name \in Names, email \in Emails, password \in Passwords, salt \in Salts :
            register(c, "POST_VALID", name, email, password, salt) /\ UsersByEmail(email) # {}
            => /\ users' = users
               /\ session' = session
               /\ resp' = AlreadySignedUp]_vars

C2_Witness ==
    /\ resp = AlreadySignedUp
    /\ users # {}

\* C3: a login that fails (unknown email, or a password that does not verify)
\* flashes the matching message, redirects to login and leaves the session and
\* the User table unchanged; login establishes a session for u only when the
\* email is u's and the password verifies against u's hash.
C3_FailedLogin ==
    [][resp'.route = "login" =>
       \A c \in Clients, email \in Emails, password \in Passwords :
         login(c, "POST_VALID", email, password)
         => /\ users' = users
            /\ UsersByEmail(email) = {}
               => /\ resp' = redirect("login", "login",
                       <<Flash("message", "That email does not exist, please try again.")>>)
                  /\ session' = session
            /\ (/\ UsersByEmail(email) # {}
                /\ \A u \in UsersByEmail(email) : ~check_password_hash(u.password, password))
               => /\ resp' = redirect("login", "login",
                       <<Flash("message", "Password incorrect, please try again.")>>)
                  /\ session' = session
            /\ session' # session
               => \E u \in users : /\ u.email = email
                                   /\ check_password_hash(u.password, password)
                                   /\ session' = [session EXCEPT ![c] = get_id(u)]]_vars

C3_Witness ==
    /\ resp = redirect("login", "login", <<Flash("message", "Password incorrect, please try again.")>>)
    /\ \E c \in Clients : session[c] # NoUserId

\* C4: a valid comment submission by an anonymous caller persists nothing and
\* redirects to login with the login prompt; every stored comment was submitted
\* by an authenticated identity and is linked to that identity and to the post
\* it was submitted on.
C4_Comments ==
    [][/\ resp'.route = "show_post" =>
            \A c \in Clients, post_id \in PostIds, text \in Texts :
               (/\ show_post(c, "POST_VALID", post_id, text)
                /\ PostsById(post_id) # {}
                /\ ~IsAuthenticated(c))
               => /\ comments' = comments
                  /\ resp' = redirect("show_post", "login",
                       <<Flash("message", "You need to login or register to comment.")>>)
       /\ \A k \in comments' :
            \/ k \in comments
            \/ \E c \in Clients, post_id \in PostIds, text \in Texts :
                 /\ show_post(c, "POST_VALID", post_id, text)
                 /\ IsAuthenticated(c)
                 /\ k.author_id = current_user(c).id
                 /\ k.post_id = post_id]_vars

\* C5: a valid registration with an email not yet stored persists exactly one
\* new user (that email, that name, a hash the password verifies against) and
\* makes it the session identity, whatever the session held before: the next
\* request's current_user is that user.
C5_RegisteredIsLoggedIn ==
    [][resp'.route = "register" =>
       \A c \in Clients, name \in Names, email \in Emails, password \in Passwords, salt \in Salts :
         register(c, "POST_VALID", name, email, password, salt) /\ UsersByEmail(email) = {}
         => \E u \in users' :
              /\ u \notin users
              /\ users' = users \cup {u}
              /\ u.email = email
              /\ u.name = name
              /\ check_password_hash(u.password, password)
              /\ session' = [session EXCEPT ![c] = get_id(u)]
              /\ IsAuthenticated(c)'
              /\ current_user(c)'.id = u.id]_vars

C5_Witness ==
    /\ resp = redirect("register", "get_all_posts", <<>>)
    /\ \E c \in Clients : IsAuthenticated(c) /\ current_user(c).id = 2

\* a key the BlogPost table has given out and that is no longer stored: the
\* post was deleted
WasDeleted(post_id) == post_id \in 1..seq.post /\ PostsById(post_id) = {}

NotFoundIffAbsent ==
    resp'.route = "show_post" =>
       \A c \in Clients, kind \in Kinds, post_id \in PostIds : \A text \in TextsOf(kind) :
          show_post(c, kind, post_id, text) => (resp'.status = 404 <=> PostsById(post_id) = {})

ListingShowsStored ==
    \A c \in Clients : get_all_posts(c) => resp'.listing = Ids(posts)

\* C6 as stated: /post/<id> answers 404 exactly when no post has that id, and
\* once a post is deleted its id stays unstored (404, absent from the listing)
\* whatever happens afterwards, the creation of new posts included.
C6_DeletedStaysGone ==
    [][/\ NotFoundIffAbsent
       /\ ListingShowsStored
       /\ \A post_id \in PostIds : WasDeleted(post_id) => PostsById(post_id)' = {}]_vars

\* C6 as amended: /post/<id> answers 404 exactly when no post has that id and
\* the listing shows exactly the stored posts; a delete the admin gets through
\* removes the post, and only a later /new-post submission that is given the
\* same id makes the id answer again.
C6_DeletedUntilIdReused ==
    [][/\ NotFoundIffAbsent
       /\ ListingShowsStored
       /\ resp'.route = "delete_post" =>
            \A c \in Clients, post_id \in PostIds :
               delete_post(c, post_id) /\ resp'.status = 302
               => IsAdmin(c) /\ posts' = posts \ PostsById(post_id) /\ WasDeleted(post_id)'
       /\ \A post_id \in PostIds :
            PostsById(post_id) = {} /\ PostsById(post_id)' # {}
            => resp' = redirect("add_new_post", "get_all_posts", <<>>)]_vars

C6_Witness ==
    /\ resp = abort("show_post", 404)
    /\ \E post_id \in PostIds : WasDeleted(post_id)
    /\ \A post_id \in PostIds : WasDeleted(post_id) \/ PostsById(post_id) # {}

\* C7: every valid contact submission redirects to the contact page with exactly
\* one flash, the success message when send_email returned and the failure
\* message when it raised; it never answers an error, calls sendmail at most
\* once, and changes no table and no session.
C7_ContactAlwaysRedirects ==
    [][resp'.route = "contact" =>
       \A c \in Clients, outcome \in SmtpOutcomes :
         contact(c, "POST_VALID", outcome)
         => /\ resp'.status = 302 /\ resp'.target = "contact"
            /\ resp'.sendmail_calls <= 1
            /\ resp'.flashes =
                 IF outcome = "ok"
                 THEN <<Flash("success", "Your message has been sent successfully!")>>
                 ELSE <<Flash("danger", "An unexpected error occurred. Please try again later")>>
            /\ UNCHANGED <<users, posts, comments, session>>]_vars

C7_Witness ==
    /\ resp.route = "contact"
    /\ resp.flashes = <<Flash("danger", "An unexpected error occurred. Please try again later")>>
    /\ resp.sendmail_calls = 1

\* the post as a valid edit submission leaves it: the four submitted fields
\* overwritten, the author set, id and date kept
Edited(post, form, author_id) ==
    [id |-> post.id, date |-> post.date, title |-> form.title, subtitle |-> form.subtitle,
     img_url |-> form.img_url, body |-> form.body, author_id |-> author_id]

C9_ReferentialIntegrity ==
    /\ \A k \in comments : k.post_id \in Ids(posts) /\ k.author_id \in Ids(users)
    /\ \A p \in posts : p.author_id \in Ids(users)

\* C10: when registrations with the same not-yet-stored email interleave between
\* the lookup and the insert, at most one user with that email is stored and
\* at most one of the requests ends logged in as a newly created user: the
\* request whose commit finds the email stored creates nothing and gets no
\* session, the one that gets a session created exactly one user with an email
\* no user had.
C10_ConcurrentRegistration ==
    /\ []EmailsUnique
    /\ [][resp'.route = "register" =>
          \A c \in Clients, salt \in Salts :
            register_commit(c, salt)
            => IF UsersByEmail(pending[c].email) # {}
               THEN /\ users' = users
                    /\ session' = session
                    /\ resp'.status = 500
               ELSE \E u \in users' :
                      /\ u \notin users
                      /\ users' = users \cup {u}
                      /\ u.email = pending[c].email
                      /\ session' = [session EXCEPT ![c] = get_id(u)]]_vars

\* two requests looked the same email up before either inserted it: one has
\* committed, the other was refused
C10_Witness ==
    /\ resp = abort("register", 500)
    /\ users # {}
    /\ \E c \in Clients : session[c] # NoUserId
====
